---- MODULE Spec2Model ----
(***************************************************************************)
(* FAQtory command line (faqtory/cli.py): the three commands of the click  *)
(* group `run` -- init, build and suggest -- as a state machine, one       *)
(* action per statement of a command body.  Config.read, read_questions,   *)
(* Question.match/slug and the template renderer live in modules that are  *)
(* imported by cli.py; they are modelled from the specification.           *)
(***************************************************************************)
EXTENDS Integers, Sequences, FiniteSets, TLC

\* ---------------------------------------------------------------- bounds
\* Largest number of question documents in the questions directory.
MaxFiles == 3
\* Longest title handed to the slug generator.
MaxTitleLen == 4

\* ------------------------------------------------------- program constants
\* suggest keeps a question when `ratio > 50` (cli.py:218).
Threshold == 50
\* Representative match scores in the engine's range [0, 100].
Scores == {0, Threshold, Threshold + 1, 100}
\* Exit status of a command that returns normally.
ExitOk == 0
\* Exit status of the interpreter after an uncaught exception.
ExitUncaught == 1
\* sys.exit(-1) as the operating system reports it.
ExitWriteFailed == (0 - 1) % 256

\* The question documents, named by their rank in filename order.
FileIds == 1..MaxFiles

\* Paths the build command may be told to write to.
BuildPaths == {"FAQ.md", "out.md", "-"}
\* Values of build's --output option ("" is the default: not given).
OutputOptions == {"", "-", "out.md"}
\* Values of output_path in the config file.
ConfigOutputPaths == {"FAQ.md", "-"}

\* Paths written by init with its default options.
ConfigFile == "./faq.yml"
ReadmeFile == "./questions/README.md"
FaqTemplateFile == ".faq/FAQ.md"
SuggestTemplateFile == ".faq/suggest.md"
QuestionsDir == "./questions"
TemplatesDir == ".faq"
InitFiles == {ConfigFile, ReadmeFile, FaqTemplateFile, SuggestTemplateFile}
InitDirs == {QuestionsDir, TemplatesDir}
AllFiles == BuildPaths \cup InitFiles

\* The directory a file of init lives in ("." is the working directory).
Parent(path) ==
    IF path = ReadmeFile THEN QuestionsDir
    ELSE IF path \in {FaqTemplateFile, SuggestTemplateFile} THEN TemplatesDir
    ELSE "."

\* ------------------------------------------------------------- file texts
\* A text is the template (or fixed string) it was produced from together
\* with the variables the renderer was given.
Text(tpl, qs, url) == [tpl |-> tpl, questions |-> qs, faq_url |-> url]
Absent == Text("<absent>", <<>>, "")
Old == Text("<old>", <<>>, "")
Empty == Text("", <<>>, "")
DEFAULT_CONFIG == Text("DEFAULT_CONFIG", <<>>, "")
QUESTIONS_README == Text("QUESTIONS_README", <<>>, "")
FAQ_TEMPLATE == Text("FAQ_TEMPLATE", <<>>, "")
SUGGEST_TEMPLATE == Text("SUGGEST_TEMPLATE", <<>>, "")

\* A console line: what it says and the path or text it is about.
Msg(kind, path, n) == [kind |-> kind, path |-> path, n |-> n]
Out(text) == [kind |-> "text", text |-> text]

VARIABLES
    cmd,            \* the command click dispatched to
    pc,             \* the statement the command is at
    output,         \* build: the --output option
    directory,      \* build/suggest: the eligible files of the questions directory
    match,          \* suggest: the score Question.match gives each question
    overwrite,      \* init: the --overwrite flag
    config_data,    \* build/suggest: the loaded Config
    questions,      \* build/suggest: the loaded collection
    scored_results, \* suggest: (ratio, question) pairs
    results,        \* suggest: the questions handed to the renderer
    rendered,       \* text returned by the renderer
    renderCalls,    \* the renderer's invocations, in order
    fs0,            \* content of every file when the command started
    fs,             \* content of every file
    dirs,           \* init: which directories exist
    stdout,         \* lines on standard output
    stderr,         \* lines on the error console
    trace,          \* the steps the command has attempted, in order
    raised,         \* the exceptions raised so far, caught or not
    exitStatus,     \* {} while running, {status} after the process ended
    title,          \* slug generator: its input
    slugs           \* slug generator: the results of the calls made so far

vars == <<cmd, pc, output, directory, match, overwrite, config_data, questions,
          scored_results, results, rendered, renderCalls, fs0, fs, dirs, stdout,
          stderr, trace, raised, exitStatus, title, slugs>>

cmdVars == <<cmd, output, directory, match, overwrite, fs0>>
slugVars == <<title, slugs>>
NoConfig == [output_path |-> "", faq_url |-> ""]
FAQ_URL == "https://example.org/FAQ.md"

\* ------------------------------------------------------ external modules
\* templates.render_faq(templates_path, questions=...)
render_faq(qs) == Text("FAQ.md", qs, "")
\* templates.render_suggest(templates_path, questions=..., faq_url=...)
render_suggest(qs, url) == Text("suggest.md", qs, url)

\* questions.read_questions: one Question per eligible file, by filename.
RECURSIVE SortedSeq(_)
SortedSeq(S) ==
    IF S = {} THEN <<>>
    ELSE LET m == CHOOSE x \in S : \A y \in S : x <= y
         IN <<m>> \o SortedSeq(S \ {m})

read_questions(files) == SortedSeq(files)

\* -------------------------------------------------------- build / suggest
\* An exception nobody catches leaves the command: traceback, status 1.
UncaughtSwallowed(exc, what) ==
    /\ raised' = Append(raised, Msg(exc, what, 0))
    /\ pc' = IF pc = "config" THEN "questions"
             ELSE IF cmd = "build" THEN "render" ELSE "match"
    /\ UNCHANGED exitStatus

Uncaught(exc, what) ==
    /\ raised' = Append(raised, Msg(exc, what, 0))
    /\ pc' = "done"
    /\ exitStatus' = {ExitUncaught}

\* config_data = Config.read(Path(config))
ReadConfig ==
    /\ cmd \in {"build", "suggest"}
    /\ pc = "config"
    /\ trace' = Append(trace, "config")
    /\ \/ /\ \E op \in ConfigOutputPaths :
                config_data' = [output_path |-> op, faq_url |-> FAQ_URL]
          /\ pc' = "questions"
          /\ UNCHANGED <<exitStatus, raised>>
       \/ /\ Uncaught("ConfigError", "config")
          /\ UNCHANGED config_data
    /\ UNCHANGED <<cmdVars, questions, scored_results, results, rendered,
                   renderCalls, fs, dirs, stdout, stderr, slugVars>>

\* questions = read_questions(config_data.questions_path)
ReadQuestions ==
    /\ cmd \in {"build", "suggest"}
    /\ pc = "questions"
    /\ trace' = Append(trace, "questions")
    /\ \/ /\ questions' = read_questions(directory)
          /\ pc' = IF cmd = "build" THEN "render" ELSE "match"
          /\ UNCHANGED <<exitStatus, raised>>
       \/ /\ Uncaught("ParseError", "questions")
          /\ UNCHANGED questions
    /\ UNCHANGED <<cmdVars, config_data, scored_results, results, rendered,
                   renderCalls, fs, dirs, stdout, stderr, slugVars>>

\* A build that treats an empty collection as an error.
RenderFaqRejectsEmpty ==
    /\ cmd = "build"
    /\ pc = "render"
    /\ trace' = Append(trace, "render")
    /\ IF questions = <<>>
       THEN /\ Uncaught("ValueError", "questions")
            /\ UNCHANGED <<rendered, renderCalls>>
       ELSE /\ rendered' = render_faq(questions)
            /\ renderCalls' = Append(renderCalls, Text("FAQ.md", questions, ""))
            /\ pc' = "output"
            /\ UNCHANGED <<raised, exitStatus>>
    /\ UNCHANGED <<cmdVars, config_data, questions, scored_results, results,
                   fs, dirs, stdout, stderr, slugVars>>

\* A build that hands the renderer the collection without its last question.
RenderFaqDropsLast ==
    /\ cmd = "build"
    /\ pc = "render"
    /\ trace' = Append(trace, "render")
    /\ LET qs == SubSeq(questions, 1, Len(questions) - 1)
       IN /\ rendered' = render_faq(qs)
          /\ renderCalls' = Append(renderCalls, Text("FAQ.md", qs, ""))
    /\ pc' = "output"
    /\ UNCHANGED <<cmdVars, config_data, questions, scored_results, results,
                   fs, dirs, stdout, stderr, raised, exitStatus, slugVars>>

\* faq = templates.render_faq(config_data.templates_path, questions=questions)
RenderFaq ==
    /\ cmd = "build"
    /\ pc = "render"
    /\ trace' = Append(trace, "render")
    /\ rendered' = render_faq(questions)
    /\ renderCalls' = Append(renderCalls, Text("FAQ.md", questions, ""))
    /\ pc' = "output"
    /\ UNCHANGED <<cmdVars, config_data, questions, scored_results, results,
                   fs, dirs, stdout, stderr, raised, exitStatus, slugVars>>

\* faq_path = output or config_data.output_path
FaqPathSwapped(out, cfg) ==
    IF cfg.output_path # "" THEN cfg.output_path ELSE out

FaqPath(out, cfg) ==
    IF out # "" THEN out ELSE cfg.output_path

\* The success line: f'wrote FAQ with {len(questions)} questions to "{faq_path}"'
WroteMsgOffByOne(qs, path) == Msg("wrote", path, Len(qs) + 1)

WroteMsg(qs, path) == Msg("wrote", path, Len(qs))

\* What Path(faq_path).write_text(faq) leaves in the file when it raises
\* OSError: the open failed, or the file was truncated and the write failed.
FailedWrite(old) == {old, Empty}

\* The try/except/else around write_text.
WriteFaqNoExit(faq_path) ==
    \/ /\ fs' = [fs EXCEPT ![faq_path] = rendered]
       /\ stderr' = Append(stderr, WroteMsg(questions, faq_path))
       /\ exitStatus' = {ExitOk}
       /\ UNCHANGED raised
    \/ /\ \E c \in FailedWrite(fs[faq_path]) : fs' = [fs EXCEPT ![faq_path] = c]
       /\ stderr' = Append(Append(stderr, Msg("failed to write faq", faq_path, 0)),
                           WroteMsg(questions, faq_path))
       /\ exitStatus' = {ExitOk}
       /\ raised' = Append(raised, Msg("OSError", faq_path, 0))

WriteFaq(faq_path) ==
    \/ /\ fs' = [fs EXCEPT ![faq_path] = rendered]
       /\ stderr' = Append(stderr, WroteMsg(questions, faq_path))
       /\ exitStatus' = {ExitOk}
       /\ UNCHANGED raised
    \/ /\ \E c \in FailedWrite(fs[faq_path]) : fs' = [fs EXCEPT ![faq_path] = c]
       /\ stderr' = Append(stderr, Msg("failed to write faq", faq_path, 0))
       /\ exitStatus' = {ExitWriteFailed}
       /\ raised' = Append(raised, Msg("OSError", faq_path, 0))

\* if faq_path == "-": print(faq) else: write it
BuildOutput ==
    /\ cmd = "build"
    /\ pc = "output"
    /\ trace' = Append(trace, "output")
    /\ LET faq_path == FaqPath(output, config_data)
       IN IF faq_path = "-"
          THEN /\ stdout' = Append(stdout, Out(rendered))
               /\ exitStatus' = {ExitOk}
               /\ UNCHANGED <<fs, stderr, raised>>
          ELSE /\ WriteFaq(faq_path)
               /\ UNCHANGED stdout
    /\ pc' = "done"
    /\ UNCHANGED <<cmdVars, config_data, questions, scored_results, results,
                   rendered, renderCalls, dirs, slugVars>>

\* scored_results = [(question.match(query), question) for question in questions]
\* Question.match is a pure function of the query and the question: `match`
\* is the score it gives each question for this invocation's query.
Match ==
    /\ cmd = "suggest"
    /\ pc = "match"
    /\ scored_results' = [i \in 1..Len(questions) |->
                              [ratio |-> match[questions[i]],
                               question |-> questions[i]]]
    /\ pc' = "sort"
    /\ UNCHANGED <<cmdVars, config_data, questions, results, rendered,
                   renderCalls, fs, dirs, stdout, stderr, trace, raised,
                   exitStatus, slugVars>>

\* list.sort(key=lambda result: result[0]): ascending by ratio, and stable,
\* so an element goes behind every element whose key is not larger.
RECURSIVE InsertByRatio(_, _)
InsertByRatio(x, s) ==
    IF s = <<>> THEN <<x>>
    ELSE IF Head(s).ratio <= x.ratio
         THEN <<Head(s)>> \o InsertByRatio(x, Tail(s))
         ELSE <<x>> \o s

\* A sort that puts an element in front of the elements with an equal key.
RECURSIVE InsertBeforeEqual(_, _)
InsertBeforeEqual(x, s) ==
    IF s = <<>> THEN <<x>>
    ELSE IF Head(s).ratio < x.ratio
         THEN <<Head(s)>> \o InsertBeforeEqual(x, Tail(s))
         ELSE <<x>> \o s

RECURSIVE SortWith(_, _)
SortWith(s, n) ==
    IF n = 0 THEN <<>> ELSE InsertByRatio(s[n], SortWith(s, n - 1))

RECURSIVE SortWithBeforeEqual(_, _)
SortWithBeforeEqual(s, n) ==
    IF n = 0 THEN <<>> ELSE InsertBeforeEqual(s[n], SortWithBeforeEqual(s, n - 1))

SortUnstable(s) == SortWithBeforeEqual(s, Len(s))

SortByRatio(s) == SortWith(s, Len(s))

\* scored_results.sort(key=lambda result: result[0])
Sort ==
    /\ cmd = "suggest"
    /\ pc = "sort"
    /\ scored_results' = SortByRatio(scored_results)
    /\ pc' = "filter"
    /\ UNCHANGED <<cmdVars, config_data, questions, results, rendered,
                   renderCalls, fs, dirs, stdout, stderr, trace, raised,
                   exitStatus, slugVars>>

\* [question for ratio, question in scored_results if ratio > 50]
RECURSIVE KeepAtLeast(_)
KeepAtLeast(s) ==
    IF s = <<>> THEN <<>>
    ELSE IF Head(s).ratio >= Threshold
         THEN <<Head(s).question>> \o KeepAtLeast(Tail(s))
         ELSE KeepAtLeast(Tail(s))

RECURSIVE Keep(_)
Keep(s) ==
    IF s = <<>> THEN <<>>
    ELSE IF Head(s).ratio > Threshold
         THEN <<Head(s).question>> \o Keep(Tail(s))
         ELSE Keep(Tail(s))

\* results = [question for ratio, question in scored_results if ratio > 50]
Filter ==
    /\ cmd = "suggest"
    /\ pc = "filter"
    /\ results' = Keep(scored_results)
    /\ pc' = "render"
    /\ UNCHANGED <<cmdVars, config_data, questions, scored_results, rendered,
                   renderCalls, fs, dirs, stdout, stderr, trace, raised,
                   exitStatus, slugVars>>

\* suggest = templates.render_suggest(..., questions=results, faq_url=...)
RenderSuggest ==
    /\ cmd = "suggest"
    /\ pc = "render"
    /\ trace' = Append(trace, "render")
    /\ rendered' = render_suggest(results, config_data.faq_url)
    /\ renderCalls' = Append(renderCalls,
                             Text("suggest.md", results, config_data.faq_url))
    /\ pc' = "output"
    /\ UNCHANGED <<cmdVars, config_data, questions, scored_results, results,
                   fs, dirs, stdout, stderr, raised, exitStatus, slugVars>>

\* print(suggest), and the command returns
SuggestOutput ==
    /\ cmd = "suggest"
    /\ pc = "output"
    /\ trace' = Append(trace, "output")
    /\ stdout' = Append(stdout, Out(rendered))
    /\ exitStatus' = {ExitOk}
    /\ pc' = "done"
    /\ UNCHANGED <<cmdVars, config_data, questions, scored_results, results,
                   rendered, renderCalls, fs, dirs, stderr, raised, slugVars>>

\* ------------------------------------------------------------------ init
DirExists(d) == IF d = "." THEN TRUE ELSE dirs[d]

\* write_path(path, text): open(path, "w" if overwrite else "x"), write, and
\* report.  `onSuccess` is what the caller prints when it returns True.
\* Any exception but FileExistsError: the directory is missing, the open is
\* refused, or the write fails after the file was opened (and emptied).
WriteOrFail(path, text, onSuccess) ==
    \/ /\ DirExists(Parent(path))
       /\ fs' = [fs EXCEPT ![path] = text]
       /\ stdout' = Append(stdout, Msg("Wrote", path, 0)) \o onSuccess
       /\ UNCHANGED <<stderr, raised>>
    \/ /\ \E c \in (IF DirExists(Parent(path)) THEN {fs[path], Empty} ELSE {fs[path]}) :
             fs' = [fs EXCEPT ![path] = c]
       /\ raised' = Append(raised, Msg("Exception", path, 0))
       /\ stderr' = Append(stderr, Msg("Unable to write", path, 0))
       /\ UNCHANGED stdout

\* write_path that opens with "w" whatever the flag says.
WritePathAlwaysW(path, text, onSuccess) == WriteOrFail(path, text, onSuccess)

WritePath(path, text, onSuccess) ==
    IF ~overwrite /\ fs[path] # Absent
    THEN \* open(path, "x") of a file that exists: FileExistsError
         /\ raised' = Append(raised, Msg("FileExistsError", path, 0))
         /\ stderr' = Append(stderr, Msg("exists", path, 0))
         /\ UNCHANGED <<fs, stdout>>
    ELSE WriteOrFail(path, text, onSuccess)

\* make_directory(path): path.mkdir(parents=True, exist_ok=True), and report.
MakeDirectory(path) ==
    \/ /\ dirs' = [dirs EXCEPT ![path] = TRUE]
       /\ stdout' = Append(stdout, Msg("Directory created (or exists)", path, 0))
       /\ UNCHANGED <<stderr, raised>>
    \/ /\ ~dirs[path]
       /\ raised' = Append(raised, Msg("Exception", path, 0))
       /\ stderr' = Append(stderr, Msg("unable to create", path, 0))
       /\ UNCHANGED <<dirs, stdout>>

initUnchanged == <<cmdVars, config_data, questions, scored_results, results,
                   rendered, renderCalls, exitStatus, slugVars>>

\* if write_path(Path(config), DEFAULT_CONFIG): console.print(Panel(...))
InitWriteConfig ==
    /\ cmd = "init"
    /\ pc = "write_config"
    /\ trace' = Append(trace, "write_config")
    /\ WritePath(ConfigFile, DEFAULT_CONFIG, <<Msg("Panel", ConfigFile, 0)>>)
    /\ pc' = "mkdir_questions"
    /\ UNCHANGED <<initUnchanged, dirs>>

\* make_directory(Path(questions))
InitMakeQuestionsDir ==
    /\ cmd = "init"
    /\ pc = "mkdir_questions"
    /\ trace' = Append(trace, "mkdir_questions")
    /\ MakeDirectory(QuestionsDir)
    /\ pc' = "mkdir_templates"
    /\ UNCHANGED <<initUnchanged, fs>>

\* make_directory(Path(templates))
InitMakeTemplatesDir ==
    /\ cmd = "init"
    /\ pc = "mkdir_templates"
    /\ trace' = Append(trace, "mkdir_templates")
    /\ MakeDirectory(TemplatesDir)
    /\ pc' = "write_readme"
    /\ UNCHANGED <<initUnchanged, fs>>

\* write_path(readme_path, QUESTIONS_README)
InitWriteReadme ==
    /\ cmd = "init"
    /\ pc = "write_readme"
    /\ trace' = Append(trace, "write_readme")
    /\ WritePath(ReadmeFile, QUESTIONS_README, <<>>)
    /\ pc' = "write_faq"
    /\ UNCHANGED <<initUnchanged, dirs>>

\* write_path(Path(templates) / "FAQ.md", FAQ_TEMPLATE)
InitWriteFaqTemplate ==
    /\ cmd = "init"
    /\ pc = "write_faq"
    /\ trace' = Append(trace, "write_faq")
    /\ WritePath(FaqTemplateFile, FAQ_TEMPLATE, <<>>)
    /\ pc' = "write_suggest"
    /\ UNCHANGED <<initUnchanged, dirs>>

\* write_path(Path(templates) / "suggest.md", SUGGEST_TEMPLATE); init returns
InitWriteSuggestTemplate ==
    /\ cmd = "init"
    /\ pc = "write_suggest"
    /\ trace' = Append(trace, "write_suggest")
    /\ WritePath(SuggestTemplateFile, SUGGEST_TEMPLATE, <<>>)
    /\ pc' = "done"
    /\ exitStatus' = {ExitOk}
    /\ UNCHANGED <<cmdVars, config_data, questions, scored_results, results,
                   rendered, renderCalls, slugVars, dirs>>

\* ------------------------------------------------------------- the system
\* The files a command finds when it starts: a file exists only in a
\* directory that exists.
StartFiles(paths, d) ==
    {f \in [AllFiles -> {Absent, Old}] :
        \A p \in AllFiles :
            /\ p \notin paths => f[p] = Absent
            /\ f[p] # Absent /\ Parent(p) # "." => d[Parent(p)]}

Init ==
    /\ cmd \in {"init", "build", "suggest"}
    /\ pc = IF cmd = "init" THEN "write_config" ELSE "config"
    /\ output \in (IF cmd = "build" THEN OutputOptions ELSE {""})
    /\ overwrite \in (IF cmd = "init" THEN BOOLEAN ELSE {FALSE})
    /\ dirs \in (IF cmd = "init" THEN [InitDirs -> BOOLEAN]
                                 ELSE {[d \in InitDirs |-> TRUE]})
    /\ directory \in (IF cmd = "init" THEN {{}} ELSE SUBSET FileIds)
    /\ match \in (IF cmd = "suggest" THEN [FileIds -> Scores]
                                    ELSE {[q \in FileIds |-> 0]})
    /\ fs0 \in StartFiles(IF cmd = "init" THEN InitFiles ELSE {"FAQ.md", "out.md"}, dirs)
    /\ fs = fs0
    /\ raised = <<>>
    /\ config_data = NoConfig
    /\ questions = <<>>
    /\ scored_results = <<>>
    /\ results = <<>>
    /\ rendered = Absent
    /\ renderCalls = <<>>
    /\ stdout = <<>>
    /\ stderr = <<>>
    /\ trace = <<>>
    /\ exitStatus = {}
    /\ title = <<>>
    /\ slugs = <<>>

Next ==
    \/ ReadConfig
    \/ ReadQuestions
    \/ RenderFaq
    \/ BuildOutput
    \/ Match
    \/ Sort
    \/ Filter
    \/ RenderSuggest
    \/ SuggestOutput
    \/ InitWriteConfig
    \/ InitMakeQuestionsDir
    \/ InitMakeTemplatesDir
    \/ InitWriteReadme
    \/ InitWriteFaqTemplate
    \/ InitWriteSuggestTemplate

Spec == Init /\ [][Next]_vars

\* ------------------------------------------------------- slug generator
\* Characters of a title: a lower-case letter, an upper-case letter, a digit,
\* and three characters that are neither letters nor digits.
Alphabet == {"a", "B", "7", " ", "-", "_"}
AsciiLower == {"a", "b"}
AsciiDigit == {"7"}

RECURSIVE StringsUpTo(_)
StringsUpTo(n) ==
    IF n = 0 THEN {<<>>}
    ELSE LET shorter == StringsUpTo(n - 1)
         IN shorter \cup {Append(s, c) : s \in shorter, c \in Alphabet}

Titles == StringsUpTo(MaxTitleLen)

LowerChar(c) == IF c = "B" THEN "b" ELSE c
Lower(s) == [i \in 1..Len(s) |-> LowerChar(s[i])]
IsAlnum(c) == c \in AsciiLower \cup AsciiDigit

RECURSIVE SkipRun(_)
SkipRun(s) ==
    IF s = <<>> \/ IsAlnum(Head(s)) THEN s ELSE SkipRun(Tail(s))

\* Every character that is no letter or digit becomes a hyphen of its own.
RECURSIVE HyphenateEach(_)
HyphenateEach(s) ==
    IF s = <<>> THEN <<>>
    ELSE IF IsAlnum(Head(s)) THEN <<Head(s)>> \o HyphenateEach(Tail(s))
         ELSE <<"-">> \o HyphenateEach(Tail(s))

\* Every maximal run of characters that are no letters or digits becomes
\* one hyphen.
RECURSIVE Hyphenate(_)
Hyphenate(s) ==
    IF s = <<>> THEN <<>>
    ELSE IF IsAlnum(Head(s)) THEN <<Head(s)>> \o Hyphenate(Tail(s))
         ELSE <<"-">> \o Hyphenate(SkipRun(Tail(s)))

RECURSIVE StripLeft(_)
StripLeft(s) ==
    IF s # <<>> /\ Head(s) = "-" THEN StripLeft(Tail(s)) ELSE s

RECURSIVE StripRight(_)
StripRight(s) ==
    IF s # <<>> /\ s[Len(s)] = "-" THEN StripRight(SubSeq(s, 1, Len(s) - 1)) ELSE s

Strip(s) == StripRight(StripLeft(s))

SlugNoCollapse(t) == Strip(HyphenateEach(Lower(t)))

Slug(t) == Strip(Hyphenate(Lower(t)))

\* question.slug, asked of the same title again
SlugTitle ==
    /\ pc = "slug"
    /\ Len(slugs) < 2
    /\ slugs' = Append(slugs, Slug(title))
    /\ UNCHANGED <<cmdVars, pc, config_data, questions, scored_results, results,
                   rendered, renderCalls, fs, dirs, stdout, stderr, trace,
                   raised, exitStatus, title>>

\* the slug of a title that is itself a slug
SlugOfSlug ==
    /\ pc = "slug"
    /\ Len(slugs) = 2
    /\ slugs' = Append(slugs, Slug(slugs[2]))
    /\ UNCHANGED <<cmdVars, pc, config_data, questions, scored_results, results,
                   rendered, renderCalls, fs, dirs, stdout, stderr, trace,
                   raised, exitStatus, title>>

SlugInit ==
    /\ cmd = "none"
    /\ pc = "slug"
    /\ output = ""
    /\ overwrite = FALSE
    /\ dirs = [d \in InitDirs |-> TRUE]
    /\ directory = {}
    /\ match = [q \in FileIds |-> 0]
    /\ fs0 = [p \in AllFiles |-> Absent]
    /\ fs = fs0
    /\ raised = <<>>
    /\ config_data = NoConfig
    /\ questions = <<>>
    /\ scored_results = <<>>
    /\ results = <<>>
    /\ rendered = Absent
    /\ renderCalls = <<>>
    /\ stdout = <<>>
    /\ stderr = <<>>
    /\ trace = <<>>
    /\ exitStatus = {}
    /\ title \in Titles
    /\ slugs = <<>>

SlugNext == SlugTitle \/ SlugOfSlug

SlugSpec == SlugInit /\ [][SlugNext]_vars

\* ------------------------------------------------------------ properties
Range(s) == {s[i] : i \in 1..Len(s)}
Count(x, s) == Cardinality({i \in 1..Len(s) : s[i] = x})
IsPrefix(s, t) == Len(s) <= Len(t) /\ \A i \in 1..Len(s) : s[i] = t[i]
Kinds(log) == {log[i].kind : i \in 1..Len(log)}

\* The question list the suggest command handed to the suggestion renderer.
Handed == renderCalls[1].questions
SuggestRendered == cmd = "suggest" /\ renderCalls # <<>>

\* The destination the build command is to deliver the FAQ to.
Destination == IF output # "" THEN output ELSE config_data.output_path

\* Both loads of build/suggest succeeded.
Loaded ==
    /\ cmd \in {"build", "suggest"}
    /\ pc \notin {"config", "questions"}
    /\ \A i \in 1..Len(raised) : raised[i].kind \notin {"ConfigError", "ParseError"}
LoadFailed ==
    /\ cmd \in {"build", "suggest"}
    /\ \E i \in 1..Len(raised) : raised[i].kind \in {"ConfigError", "ParseError"}

\* C1: the list suggest hands to the renderer holds exactly the questions of
\* the collection whose score is strictly greater than 50, each exactly once.
C1_RetainsAboveThreshold ==
    SuggestRendered =>
        \A q \in FileIds :
            Count(q, Handed) = IF q \in directory /\ match[q] > 50 THEN 1 ELSE 0

C1_Witness ==
    /\ SuggestRendered
    /\ \E q \in directory : match[q] = 50
    /\ \E q \in directory : match[q] = 51
    /\ \E q \in directory : match[q] < 50

\* C2: the list suggest hands to the renderer is in descending order of
\* score, the best match first.
C2_DescendingScore ==
    SuggestRendered =>
        \A i, j \in 1..Len(Handed) :
            i < j => match[Handed[i]] >= match[Handed[j]]

\* C3: two retained questions with equal scores are handed over in the order
\* they have in the loaded collection (filename order).
C3_TiesKeepCollectionOrder ==
    SuggestRendered =>
        \A i, j \in 1..Len(Handed) :
            (i < j /\ match[Handed[i]] = match[Handed[j]]) => Handed[i] < Handed[j]

C3_Witness ==
    /\ SuggestRendered
    /\ \E i, j \in 1..Len(Handed) : i < j /\ match[Handed[i]] = match[Handed[j]]

C5_LoadOrderAndRefusal ==
    cmd \in {"build", "suggest"} =>
        /\ IsPrefix(trace, <<"config", "questions", "render", "output">>)
        /\ Len(renderCalls) = (IF Len(trace) >= 3 THEN 1 ELSE 0)
        /\ Len(trace) < 4 => fs = fs0 /\ stdout = <<>> /\ stderr = <<>>
        /\ LoadFailed =>
              /\ renderCalls = <<>>
              /\ fs = fs0
              /\ stdout = <<>>
              /\ stderr = <<>>
              /\ pc = "done"
              /\ exitStatus # {}
              /\ ExitOk \notin exitStatus

C5_Witness ==
    /\ LoadFailed
    /\ cmd = "build"
    /\ trace = <<"config", "questions">>
    /\ directory # {}

\* C6: when build's write of the FAQ file raises an OSError the failure is
\* on the error console, no success line is, and the exit status is not 0;
\* a success line is there only after a write that succeeded, and states the
\* destination.
C6_WriteFailureReported ==
    cmd = "build" =>
        /\ (\E i \in 1..Len(raised) : raised[i].kind = "OSError") =>
              /\ "failed to write faq" \in Kinds(stderr)
              /\ "wrote" \notin Kinds(stderr)
              /\ stdout = <<>>
              /\ pc = "done"
              /\ exitStatus # {}
              /\ ExitOk \notin exitStatus
        /\ "wrote" \in Kinds(stderr) =>
              /\ raised = <<>>
              /\ fs[Destination] = rendered
              /\ stderr = <<Msg("wrote", Destination, Cardinality(directory))>>
              /\ exitStatus = {ExitOk}

C6_Witness ==
    /\ cmd = "build"
    /\ \E i \in 1..Len(raised) : raised[i].kind = "OSError"
    /\ directory # {}
    /\ fs[Destination] = Empty
    /\ fs0[Destination] = Old

\* C7: build hands the FAQ renderer the loader's collection as it is -- every
\* eligible file once, in filename order -- and the success line states its
\* size.
C7_BuildHandsWholeCollection ==
    (cmd = "build" /\ renderCalls # <<>>) =>
        /\ Len(renderCalls) = 1
        /\ renderCalls[1].tpl = "FAQ.md"
        /\ Range(Handed) = directory
        /\ Len(Handed) = Cardinality(directory)
        /\ \A i, j \in 1..Len(Handed) : i < j => Handed[i] < Handed[j]
        /\ rendered = render_faq(Handed)
        /\ \A i \in 1..Len(stderr) :
              stderr[i].kind = "wrote" => stderr[i].n = Cardinality(directory)

C7_Witness ==
    /\ cmd = "build"
    /\ renderCalls # <<>>
    /\ Cardinality(directory) >= 2
    /\ "wrote" \in Kinds(stderr)

\* C8: build delivers the FAQ to one destination, --output when it is not
\* empty and the config's output_path otherwise: "-" means standard output
\* and no file; any other destination is the one file written, and every
\* other file keeps the content it had.  suggest writes no file.
C8_OneDestination ==
    /\ cmd = "suggest" => fs = fs0
    /\ cmd = "build" =>
          /\ \A p \in AllFiles : fs[p] # fs0[p] => (Loaded /\ p = Destination /\ p # "-")
          /\ (pc = "done" /\ exitStatus = {ExitOk}) =>
                IF Destination = "-"
                THEN stdout = <<Out(rendered)>> /\ fs = fs0
                ELSE stdout = <<>> /\ fs = [fs0 EXCEPT ![Destination] = rendered]

C8_Witness ==
    /\ cmd = "build"
    /\ pc = "done"
    /\ exitStatus = {ExitOk}
    /\ output = "out.md"
    /\ config_data.output_path = "FAQ.md"
    /\ fs["out.md"] = rendered
    /\ fs["FAQ.md"] = Old

\* A slug: lower-case ASCII letters, digits and hyphens, no hyphen first or
\* last, no two hyphens in a row.
WellFormedSlug(g) ==
    /\ \A i \in 1..Len(g) : g[i] \in AsciiLower \cup AsciiDigit \cup {"-"}
    /\ g # <<>> => g[1] # "-" /\ g[Len(g)] # "-"
    /\ \A i \in 1..(Len(g) - 1) : ~(g[i] = "-" /\ g[i + 1] = "-")

\* C9: slug generation gives the same slug for the same title, the slug of a
\* slug is that slug, and a slug holds only lower-case ASCII letters, digits
\* and single interior hyphens.
C9_SlugIdempotent ==
    /\ Len(slugs) >= 2 => slugs[2] = slugs[1]
    /\ Len(slugs) >= 3 => slugs[3] = slugs[2]
    /\ \A i \in 1..Len(slugs) : WellFormedSlug(slugs[i])

C9_Witness ==
    /\ Len(slugs) = 3
    /\ title = <<"B", " ", "_", "7">>
    /\ slugs[3] = <<"b", "-", "7">>

\* The text init generates for each of its files.
NewText(p) ==
    CASE p = ConfigFile -> DEFAULT_CONFIG
      [] p = ReadmeFile -> QUESTIONS_README
      [] p = FaqTemplateFile -> FAQ_TEMPLATE
      [] p = SuggestTemplateFile -> SUGGEST_TEMPLATE

StepOf(p) ==
    CASE p = ConfigFile -> "write_config"
      [] p = ReadmeFile -> "write_readme"
      [] p = FaqTemplateFile -> "write_faq"
      [] p = SuggestTemplateFile -> "write_suggest"

InitSteps == <<"write_config", "mkdir_questions", "mkdir_templates",
               "write_readme", "write_faq", "write_suggest">>

RaisedFor(p) == \E i \in 1..Len(raised) : raised[i].path = p

\* What C10 says of a run without --overwrite and of failures: a file that
\* exists keeps its content and is reported as existing; no failure aborts
\* init, which attempts its six steps in order and returns normally.
C10_KeepsAndContinues ==
    /\ IsPrefix(trace, InitSteps)
    /\ ExitUncaught \notin exitStatus
    /\ pc = "done" <=> trace = InitSteps
    /\ pc = "done" <=> exitStatus = {ExitOk}
    /\ ~overwrite =>
          \A p \in InitFiles :
              fs0[p] # Absent =>
                  /\ fs[p] = fs0[p]
                  /\ StepOf(p) \in Range(trace) => Msg("exists", p, 0) \in Range(stderr)

\* C10 as stated: ... and with --overwrite each target file ends up holding
\* the newly generated text.
C10_OverwriteAlwaysReplaces ==
    cmd = "init" =>
        /\ C10_KeepsAndContinues
        /\ (overwrite /\ pc = "done") => \A p \in InitFiles : fs[p] = NewText(p)

\* C10, amended: without --overwrite every target file that exists keeps its
\* content and is reported as existing; no failed write or directory creation
\* aborts init, which attempts all six steps in order and returns normally;
\* with --overwrite each target file whose write raised nothing holds the
\* newly generated text (a write that fails leaves the old content or an
\* empty file).
C10_OverwriteReplacesWhenWritten ==
    cmd = "init" =>
        /\ C10_KeepsAndContinues
        /\ overwrite =>
              \A p \in InitFiles :
                  IF StepOf(p) \notin Range(trace) THEN fs[p] = fs0[p]
                  ELSE IF ~RaisedFor(p) THEN fs[p] = NewText(p)
                  ELSE fs[p] \in {fs0[p], Empty}

C10_Witness ==
    /\ cmd = "init"
    /\ overwrite
    /\ pc = "done"
    /\ fs0[ConfigFile] = Old
    /\ fs[ConfigFile] = DEFAULT_CONFIG
    /\ RaisedFor(TemplatesDir)
    /\ fs[FaqTemplateFile] = Absent
    /\ fs[ReadmeFile] = QUESTIONS_README

====
